---- MODULE Spec2Model ----
(***************************************************************************)
(* Model of the DrawToolsBox widget                                        *)
(* (src/src/pages/Board/components/DrawToolsBox.tsx): the tool selector    *)
(* (handleToolChange), the keyboard handlers (handleKeyDown, handleKeyUp), *)
(* the panel flag (toggleToolBox) and the pointer path (handleClick).      *)
(*                                                                         *)
(* The widget keeps two pieces of state of its own (isOpen, lastKeyTime)   *)
(* and reads a third, tool, from its owner, which it changes only by       *)
(* calling setTool.  The owner is taken to commit the argument of setTool  *)
(* as the next value of the tool prop, and the effect that re-registers    *)
(* the listeners (dependency list, lines 111-118) is taken to have run     *)
(* before the next event is delivered, so that a handler reads the values  *)
(* of the latest render.                                                   *)
(*                                                                         *)
(* Time is Date.now() in milliseconds.                                     *)
(***************************************************************************)
EXTENDS Integers, Sequences, FiniteSets, TLC

VARIABLES
    tool,          \* the tool prop: the owner's current tool (line 14, 22)
    isOpen,        \* useState(false), line 26
    lastKeyTime,   \* useState(0), line 27
    isKeyboardShortcutsDisable,  \* the prop of line 16, 24
    now,           \* what Date.now() returns (line 51)
    spaceHeld,     \* the space key is down, as the delivered events tell
    event,         \* the event the last step delivered
    setToolCalls,  \* the arguments the last step passed to setTool
    overriding,    \* history: line 60 has run since line 100 last ran
    pc,            \* position in the scripted scenario (ScenarioSpec only)
    \* The life cycle of the component and its listeners (RenderSpec only)
    mounted,           \* the component is mounted
    renderPending,     \* state or props changed since the last render
    rendered,          \* the values the last render read
    keydownListeners,  \* the closures attached to window for 'keydown'
    keyupListeners,    \* the closures attached to window for 'keyup'
    cleanup            \* the closures the effect's next cleanup removes

lifecycle == <<mounted, renderPending, rendered, keydownListeners,
               keyupListeners, cleanup>>

vars == <<tool, isOpen, lastKeyTime, isKeyboardShortcutsDisable, now,
          spaceHeld, event, setToolCalls, overriding, pc, mounted,
          renderPending, rendered, keydownListeners, keyupListeners, cleanup>>

(***************************************************************************)
(* Constants and bounds                                                    *)
(***************************************************************************)
DEBOUNCE_DELAY == 150

\* Date.now() when the widget mounts: any value of at least DEBOUNCE_DELAY
\* behaves like the real clock against the initial lastKeyTime of 0.
StartTime == 1000

\* The clock stops advancing this many milliseconds after StartTime.
MaxElapsed == 320

\* The same for the scripted scenario, which needs four accepted key-downs.
ScenarioMaxElapsed == 500

\* The gaps between two deliveries.
Deltas == {50, 100, 160}

\* The values the tool prop takes: the names the widget passes to setTool
\* or compares the prop with, the empty string of handleKeyUp, and null.
ToolNames == {"default", "hand", "pen", "eraser", "text", "line", "square",
              "circle", "triangle"}

Tools == ToolNames \cup {"", "null"}

\* The tool buttons of the panel (lines 144-226).
ButtonTools == {"hand", "pen", "eraser", "text", "line", "square", "triangle"}

\* event.key values: the two spellings of the space key, the bound letters
\* in both cases, and keys without a binding.
LowerLetters == {"r", "p", "h", "e", "a", "l", "s", "i", "t", "x"}

UpperLetters == {"R", "P", "H", "E", "A", "L", "S", "I", "T", "X"}

Keys == {" ", "Space", "Enter"} \cup LowerLetters \cup UpperLetters

\* The keys whose release is delivered: both spellings of space, a bound
\* letter in both cases, and keys without a binding.
KeyUpKeys == {" ", "Space", "p", "P", "x", "Enter"}

NoEvent == [type |-> "none", key |-> ""]

(***************************************************************************)
(* Pure parts of the handlers                                              *)
(***************************************************************************)

\* event.key.toLowerCase(), line 64
toLowerCase(k) ==
    CASE k = "R" -> "r" [] k = "P" -> "p" [] k = "H" -> "h" [] k = "E" -> "e"
      [] k = "A" -> "a" [] k = "L" -> "l" [] k = "S" -> "s" [] k = "I" -> "i"
      [] k = "T" -> "t" [] k = "X" -> "x" [] k = "Enter" -> "enter"
      [] k = "Space" -> "space"
      [] OTHER -> k

\* event.key === ' ' || event.key === 'Space', lines 58 and 99
IsSpaceKey(k) == k = " " \/ k = "Space"

\* handleToolChange without the test of line 37
handleToolChange_noToggle(current, newTool) == newTool

\* handleToolChange, lines 35-44: the value it passes to setTool
handleToolChange(current, newTool) ==
    IF newTool = current THEN "default" ELSE newTool

\* The debounce check with <= for the < of line 52
Debounced_inclusive(currentTime, last) == currentTime - last <= DEBOUNCE_DELAY

\* The debounce check of lines 51-54: TRUE when the key-down is dropped
Debounced(currentTime, last) == currentTime - last < DEBOUNCE_DELAY

\* Lines 49-54 without the early return of line 49
KeyDownPasses_ignoresFlag(disabled, currentTime, last) ==
    ~Debounced(currentTime, last)

\* Lines 49-54: the key-down gets past both early returns
KeyDownPasses(disabled, currentTime, last) ==
    ~disabled /\ ~Debounced(currentTime, last)

\* The switch with a default case that resets the tool
RequestedTool_defaultResets(lk) ==
    CASE lk = "r" -> "default"
      [] lk = "p" -> "pen"
      [] lk = "h" -> "hand"
      [] lk = "e" -> "eraser"
      [] lk = "a" -> "text"
      [] lk = "l" -> "line"
      [] lk = "s" -> "square"
      [] lk = "i" -> "circle"
      [] lk = "t" -> ""
      [] OTHER -> "default"

\* The switch of lines 64-94: the tool a letter requests ("" for none)
RequestedTool(lk) ==
    CASE lk = "r" -> "default"
      [] lk = "p" -> "pen"
      [] lk = "h" -> "hand"
      [] lk = "e" -> "eraser"
      [] lk = "a" -> "text"
      [] lk = "l" -> "line"
      [] lk = "s" -> "square"
      [] lk = "i" -> "circle"
      [] OTHER -> ""

\* case 'i' without its break (line 88), falling through to case 't'
IsPanelKey_fallthrough(lk) == lk \in {"i", "t"}

\* case 't', lines 89-91
IsPanelKey(lk) == lk = "t"

\* Lines 57-94 with the space branch going through handleToolChange
KeyDownCalls_spaceToggles(current, key) ==
    IF IsSpaceKey(key) THEN <<handleToolChange(current, "hand")>>
    ELSE IF RequestedTool(toLowerCase(key)) # ""
         THEN <<handleToolChange(current, RequestedTool(toLowerCase(key)))>>
         ELSE <<>>

\* The calls to setTool an accepted key-down makes, lines 57-94
KeyDownCalls(current, key) ==
    IF IsSpaceKey(key) THEN <<"hand">>
    ELSE IF RequestedTool(toLowerCase(key)) # ""
         THEN <<handleToolChange(current, RequestedTool(toLowerCase(key)))>>
         ELSE <<>>

\* Line 99 testing only the name 'Space'
KeyUpCalls_namedOnly(key) ==
    IF key = "Space" THEN <<"">> ELSE <<>>

\* The calls to setTool a key-up makes, lines 97-102
KeyUpCalls(key) ==
    IF IsSpaceKey(key) THEN <<"">> ELSE <<>>

\* The owner's tool after the calls of one handler
Committed(current, calls) ==
    IF calls = <<>> THEN current ELSE calls[Len(calls)]

\* What the panel shows as selected: the button whose name equals the prop
\* (tool === 'hand' ? 'bg-blue-500' : '', lines 148-220)
displayedTool == tool

(***************************************************************************)
(* Initial state                                                           *)
(***************************************************************************)
\* The values a render reads and the closures of its effect capture:
\* the tool and isKeyboardShortcutsDisable props and lastKeyTime
Current ==
    [tool |-> tool, lastKeyTime |-> lastKeyTime,
     disabled |-> isKeyboardShortcutsDisable]

\* The pair handleKeyDown, handleKeyUp one run of the effect creates (lines
\* 48-102), with the values it captured; id tells one run's pair from
\* another's
Closure(id, r) ==
    [id |-> id, tool |-> r.tool, lastKeyTime |-> r.lastKeyTime,
     disabled |-> r.disabled]

NoClosure == [id |-> 0, tool |-> "", lastKeyTime |-> 0, disabled |-> FALSE]

\* Spec and ScenarioSpec take every event as delivered to the listeners of
\* the latest render and do not follow the life cycle
NotTracked ==
    /\ mounted = TRUE
    /\ renderPending = FALSE
    /\ rendered = NoClosure
    /\ keydownListeners = {}
    /\ keyupListeners = {}
    /\ cleanup = NoClosure

WidgetInit ==
    /\ tool \in {"default", "null"}
    /\ isOpen = FALSE
    /\ lastKeyTime = 0
    /\ isKeyboardShortcutsDisable \in BOOLEAN
    /\ now = StartTime
    /\ spaceHeld = FALSE
    /\ event = NoEvent
    /\ setToolCalls = <<>>
    /\ overriding = FALSE
    /\ pc = 0

Init == WidgetInit /\ NotTracked

(***************************************************************************)
(* Operations                                                              *)
(***************************************************************************)

\* handleKeyDown with the space branch (lines 57-62) ahead of the debounce
\* check (lines 51-55)
handleKeyDown_spaceFirst(key) ==
    /\ event' = [type |-> "keydown", key |-> key]
    /\ spaceHeld' = (spaceHeld \/ IsSpaceKey(key))
    /\ IF ~isKeyboardShortcutsDisable /\ IsSpaceKey(key)
       THEN /\ setToolCalls' = <<"hand">>
            /\ tool' = "hand"
            /\ overriding' = TRUE
            /\ UNCHANGED <<isOpen, lastKeyTime>>
       ELSE IF KeyDownPasses(isKeyboardShortcutsDisable, now, lastKeyTime)
       THEN /\ lastKeyTime' = now
            /\ setToolCalls' = KeyDownCalls(tool, key)
            /\ tool' = Committed(tool, setToolCalls')
            /\ isOpen' = IF IsPanelKey(toLowerCase(key))
                         THEN ~isOpen ELSE isOpen
            /\ UNCHANGED overriding
       ELSE /\ setToolCalls' = <<>>
            /\ UNCHANGED <<tool, isOpen, lastKeyTime, overriding>>
    /\ UNCHANGED <<isKeyboardShortcutsDisable, now>>

\* handleKeyDown with setLastKeyTime (line 55) moved into the branches that
\* act: the space branch and the cases of the switch
handleKeyDown_clockOnIntent(key) ==
    /\ event' = [type |-> "keydown", key |-> key]
    /\ spaceHeld' = (spaceHeld \/ IsSpaceKey(key))
    /\ IF KeyDownPasses(isKeyboardShortcutsDisable, now, lastKeyTime)
       THEN /\ setToolCalls' = KeyDownCalls(tool, key)
            /\ tool' = Committed(tool, setToolCalls')
            /\ isOpen' = IF ~IsSpaceKey(key) /\ IsPanelKey(toLowerCase(key))
                         THEN ~isOpen ELSE isOpen
            /\ overriding' = (overriding \/ IsSpaceKey(key))
            /\ lastKeyTime' = IF setToolCalls' # <<>> \/ isOpen' # isOpen
                              THEN now ELSE lastKeyTime
       ELSE /\ setToolCalls' = <<>>
            /\ UNCHANGED <<tool, isOpen, lastKeyTime, overriding>>
    /\ UNCHANGED <<isKeyboardShortcutsDisable, now>>

\* handleKeyDown, lines 48-95, as the closure c: it reads the tool,
\* lastKeyTime and isKeyboardShortcutsDisable that c captured
handleKeyDownIn(c, key) ==
    /\ event' = [type |-> "keydown", key |-> key]
    /\ spaceHeld' = (spaceHeld \/ IsSpaceKey(key))
    /\ IF KeyDownPasses(c.disabled, now, c.lastKeyTime)
       THEN /\ lastKeyTime' = now
            /\ setToolCalls' = KeyDownCalls(c.tool, key)
            /\ tool' = Committed(tool, setToolCalls')
            /\ isOpen' = IF ~IsSpaceKey(key) /\ IsPanelKey(toLowerCase(key))
                         THEN ~isOpen ELSE isOpen
            /\ overriding' = (overriding \/ IsSpaceKey(key))
       ELSE /\ setToolCalls' = <<>>
            /\ UNCHANGED <<tool, isOpen, lastKeyTime, overriding>>
    /\ UNCHANGED <<isKeyboardShortcutsDisable, now>>

\* handleKeyDown, lines 48-95, of the latest render
handleKeyDown(key) == handleKeyDownIn(Current, key)

\* handleKeyUp behind the debounce check of lines 51-54
handleKeyUp_debounced(key) ==
    /\ event' = [type |-> "keyup", key |-> key]
    /\ spaceHeld' = (spaceHeld /\ ~IsSpaceKey(key))
    /\ setToolCalls' = IF Debounced(now, lastKeyTime) THEN <<>>
                       ELSE KeyUpCalls(key)
    /\ tool' = Committed(tool, setToolCalls')
    /\ overriding' = (overriding /\ setToolCalls' = <<>>)
    /\ UNCHANGED <<isOpen, lastKeyTime, isKeyboardShortcutsDisable, now>>

\* handleKeyUp, lines 97-102
handleKeyUp(key) ==
    /\ event' = [type |-> "keyup", key |-> key]
    /\ spaceHeld' = (spaceHeld /\ ~IsSpaceKey(key))
    /\ setToolCalls' = KeyUpCalls(key)
    /\ tool' = Committed(tool, setToolCalls')
    /\ overriding' = (overriding /\ KeyUpCalls(key) = <<>>)
    /\ UNCHANGED <<isOpen, lastKeyTime, isKeyboardShortcutsDisable, now>>

\* handleClick behind the early returns of handleKeyDown (lines 49-55)
handleClick_throughCoordinator(toolName) ==
    /\ event' = [type |-> "click", key |-> toolName]
    /\ IF KeyDownPasses(isKeyboardShortcutsDisable, now, lastKeyTime)
       THEN /\ lastKeyTime' = now
            /\ setToolCalls' = <<handleToolChange(tool, toolName)>>
            /\ tool' = Committed(tool, setToolCalls')
       ELSE /\ setToolCalls' = <<>>
            /\ UNCHANGED <<tool, lastKeyTime>>
    /\ UNCHANGED <<isOpen, isKeyboardShortcutsDisable, now, spaceHeld,
                   overriding>>

\* handleClick, lines 121-123, from a tool button's onClick, as the render
\* r made it: handleToolChange compares with the tool r read (line 43)
handleClickIn(r, toolName) ==
    /\ event' = [type |-> "click", key |-> toolName]
    /\ setToolCalls' = <<handleToolChange(r.tool, toolName)>>
    /\ tool' = Committed(tool, setToolCalls')
    /\ UNCHANGED <<isOpen, lastKeyTime, isKeyboardShortcutsDisable, now,
                   spaceHeld, overriding>>

\* handleClick, lines 121-123, of the latest render
handleClick(toolName) == handleClickIn(Current, toolName)

\* toggleToolBox, lines 30-32, from the disclosure button's onClick (131)
toggleToolBox ==
    /\ event' = [type |-> "toggle", key |-> ""]
    /\ isOpen' = ~isOpen
    /\ setToolCalls' = <<>>
    /\ UNCHANGED <<tool, lastKeyTime, isKeyboardShortcutsDisable, now,
                   spaceHeld, overriding>>

\* The owner changes the isKeyboardShortcutsDisable prop
SetShortcutsDisable(b) ==
    /\ b # isKeyboardShortcutsDisable
    /\ event' = [type |-> "flag", key |-> ""]
    /\ isKeyboardShortcutsDisable' = b
    /\ setToolCalls' = <<>>
    /\ UNCHANGED <<tool, isOpen, lastKeyTime, now, spaceHeld, overriding>>

\* Time passes between two deliveries
Tick(d, limit) ==
    /\ now + d <= StartTime + limit
    /\ now' = now + d
    /\ event' = [type |-> "tick", key |-> ""]
    /\ setToolCalls' = <<>>
    /\ UNCHANGED <<tool, isOpen, lastKeyTime, isKeyboardShortcutsDisable,
                   spaceHeld, overriding>>

KeyDown == (\E k \in Keys : handleKeyDown(k))
    /\ UNCHANGED <<pc, lifecycle>>

KeyUp == (\E k \in KeyUpKeys : handleKeyUp(k))
    /\ UNCHANGED <<pc, lifecycle>>

Click == (\E t \in ButtonTools : handleClick(t))
    /\ UNCHANGED <<pc, lifecycle>>

PanelClick == toggleToolBox
    /\ UNCHANGED <<pc, lifecycle>>

FlagChange == (\E b \in BOOLEAN : SetShortcutsDisable(b))
    /\ UNCHANGED <<pc, lifecycle>>

TimePasses == (\E d \in Deltas : Tick(d, MaxElapsed))
    /\ UNCHANGED <<pc, lifecycle>>

Next ==
    \/ KeyDown
    \/ KeyUp
    \/ Click
    \/ PanelClick
    \/ FlagChange
    \/ TimePasses

Spec == Init /\ [][Next]_vars

(***************************************************************************)
(* The scripted scenario: from tool = default with shortcuts enabled,      *)
(* press p, press p, press e, press space, release space, every key-down   *)
(* at least DEBOUNCE_DELAY after the last accepted one.                    *)
(***************************************************************************)
ScenarioInit ==
    /\ Init
    /\ tool = "default"
    /\ isKeyboardShortcutsDisable = FALSE

ScenarioKeyDown(at, key) ==
    /\ pc = at
    /\ ~Debounced(now, lastKeyTime)
    /\ handleKeyDown(key)
    /\ pc' = at + 1
    /\ UNCHANGED lifecycle

ScenarioKeyUp(at, key) ==
    /\ pc = at
    /\ handleKeyUp(key)
    /\ pc' = at + 1
    /\ UNCHANGED lifecycle

ScenarioWait ==
    /\ \E d \in Deltas : Tick(d, ScenarioMaxElapsed)
    /\ UNCHANGED <<pc, lifecycle>>

ScenarioNext ==
    \/ ScenarioKeyDown(0, "p")
    \/ ScenarioKeyDown(1, "p")
    \/ ScenarioKeyDown(2, "e")
    \/ ScenarioKeyDown(3, " ")
    \/ ScenarioKeyUp(4, " ")
    \/ ScenarioWait

ScenarioSpec == ScenarioInit /\ [][ScenarioNext]_vars

(***************************************************************************)
(* The life cycle: mount, render, effect, unmount (lines 47-118).          *)
(*                                                                         *)
(* A handler changes state (setLastKeyTime, setIsOpen) and asks the owner  *)
(* to change the tool (setTool); the render that follows reads the new     *)
(* values, and when one of the effect's dependencies changed, the cleanup  *)
(* of the last run removes its two listeners and the new run adds two new  *)
(* ones.  A listener reads what its closure captured.  The render and its  *)
(* effect are flushed before the next event is delivered.                  *)
(***************************************************************************)

\* The listener pairs that can exist at once.
MaxListeners == 3

\* The clock of RenderSpec stops this many milliseconds after StartTime.
RenderMaxElapsed == 210

\* The inputs of RenderSpec
RenderKeys == {" ", "p", "t", "x"}

RenderKeyUpKeys == {" ", "x"}

RenderButtons == {"pen", "hand"}

\* The dependency list of lines 111-118, as values: handleToolChange changes
\* with tool (line 43), toggleToolBox never (line 32), setTool is the
\* owner's
EffectDeps_withoutLastKeyTime(r) == <<r.tool, r.disabled>>

EffectDeps_withoutFlag(r) == <<r.tool, r.lastKeyTime>>

EffectDeps(r) == <<r.tool, r.lastKeyTime, r.disabled>>

\* removeEventListener called with another function than the one added
AfterCleanup_otherFunction(listeners, c) == listeners

\* removeEventListener, lines 108-109: the listeners left on window
AfterCleanup(listeners, c) == listeners \ {c}

\* addEventListener, lines 104-105
AfterAdd(listeners, c) == listeners \cup {c}

AttachedIds == {l.id : l \in keydownListeners \cup keyupListeners}

\* The identity of the pair a new run of the effect creates
FreshId == CHOOSE i \in 1..MaxListeners : i \notin AttachedIds

\* One run of the effect, lines 47-118, after the cleanup of the last run
RunEffect ==
    /\ \E i \in 1..MaxListeners : i \notin AttachedIds
    /\ LET c == Closure(FreshId, Current')
       IN /\ keydownListeners' = AfterAdd(AfterCleanup(keydownListeners, cleanup), c)
          /\ keyupListeners' = AfterAdd(AfterCleanup(keyupListeners, cleanup), c)
          /\ cleanup' = c

\* What a step that may have changed state or props leaves of the life cycle
AfterHandler ==
    /\ renderPending' = (renderPending \/
          (mounted /\ <<Current', isOpen'>> # <<Current, isOpen>>))
    /\ UNCHANGED <<mounted, rendered, keydownListeners, keyupListeners,
                   cleanup, pc>>

\* A key event that finds no listener on window
Undelivered(type, key) ==
    /\ event' = [type |-> type, key |-> key]
    /\ spaceHeld' = IF type = "keydown" THEN spaceHeld \/ IsSpaceKey(key)
                    ELSE spaceHeld /\ ~IsSpaceKey(key)
    /\ setToolCalls' = <<>>
    /\ UNCHANGED <<tool, isOpen, lastKeyTime, isKeyboardShortcutsDisable,
                   now, overriding>>

RenderInit ==
    /\ WidgetInit
    /\ mounted = TRUE
    /\ renderPending = FALSE
    /\ rendered = Current
    /\ cleanup = Closure(1, Current)
    /\ keydownListeners = {cleanup}
    /\ keyupListeners = {cleanup}

\* The first render and the first run of the effect
Mount ==
    /\ ~mounted
    /\ mounted' = TRUE
    /\ isOpen' = FALSE
    /\ lastKeyTime' = 0
    /\ event' = [type |-> "mount", key |-> ""]
    /\ setToolCalls' = <<>>
    /\ UNCHANGED <<tool, isKeyboardShortcutsDisable, now, spaceHeld,
                   overriding, pc>>
    /\ rendered' = Current'
    /\ RunEffect
    /\ renderPending' = FALSE

\* The render after a change, and the effect when a dependency changed
Render ==
    /\ mounted
    /\ renderPending
    /\ event' = [type |-> "render", key |-> ""]
    /\ setToolCalls' = <<>>
    /\ UNCHANGED <<tool, isOpen, lastKeyTime, isKeyboardShortcutsDisable,
                   now, spaceHeld, overriding, pc, mounted>>
    /\ rendered' = Current
    /\ IF EffectDeps(Current) # EffectDeps(cleanup)
       THEN RunEffect
       ELSE UNCHANGED <<keydownListeners, keyupListeners, cleanup>>
    /\ renderPending' = FALSE

\* The cleanup of the last run of the effect, lines 107-110
Unmount ==
    /\ mounted
    /\ mounted' = FALSE
    /\ event' = [type |-> "unmount", key |-> ""]
    /\ setToolCalls' = <<>>
    /\ keydownListeners' = AfterCleanup(keydownListeners, cleanup)
    /\ keyupListeners' = AfterCleanup(keyupListeners, cleanup)
    /\ cleanup' = NoClosure
    /\ renderPending' = FALSE
    /\ UNCHANGED <<tool, isOpen, lastKeyTime, isKeyboardShortcutsDisable,
                   now, spaceHeld, overriding, pc, rendered>>

\* window dispatches a keydown to the listeners attached to it
DispatchKeyDown ==
    /\ ~renderPending
    /\ \E k \in RenderKeys :
          IF keydownListeners = {}
          THEN Undelivered("keydown", k)
          ELSE \E l \in keydownListeners : handleKeyDownIn(l, k)
    /\ AfterHandler

\* window dispatches a keyup to the listeners attached to it
DispatchKeyUp ==
    /\ ~renderPending
    /\ \E k \in RenderKeyUpKeys :
          IF keyupListeners = {}
          THEN Undelivered("keyup", k)
          ELSE handleKeyUp(k)
    /\ AfterHandler

\* A click on a tool button of the mounted panel
ButtonClick ==
    /\ mounted
    /\ ~renderPending
    /\ \E t \in RenderButtons : handleClickIn(rendered, t)
    /\ AfterHandler

\* A click on the disclosure button of the mounted panel
DisclosureClick ==
    /\ mounted
    /\ ~renderPending
    /\ toggleToolBox
    /\ AfterHandler

\* The owner changes isKeyboardShortcutsDisable
OwnerSetsFlag ==
    /\ ~renderPending
    /\ \E b \in BOOLEAN : SetShortcutsDisable(b)
    /\ AfterHandler

RenderWait ==
    /\ \E d \in Deltas : Tick(d, RenderMaxElapsed)
    /\ UNCHANGED <<pc, lifecycle>>

RenderNext ==
    \/ Mount
    \/ Render
    \/ Unmount
    \/ DispatchKeyDown
    \/ DispatchKeyUp
    \/ ButtonClick
    \/ DisclosureClick
    \/ OwnerSetsFlag
    \/ RenderWait

RenderSpec == RenderInit /\ [][RenderNext]_vars

(***************************************************************************)
(* Vocabulary of the properties                                            *)
(***************************************************************************)

\* The step delivers a key-down (key-up) of one of the keys ks.
KeyDownOf(ks) == event'.type = "keydown" /\ event'.key \in ks

KeyUpOf(ks) == event'.type = "keyup" /\ event'.key \in ks

SpaceKeys == {" ", "Space"}

\* A key-down delivered in the current state is accepted: shortcuts are
\* enabled and the debounce window since the last accepted one has elapsed.
Accepting ==
    /\ ~isKeyboardShortcutsDisable
    /\ now - lastKeyTime >= DEBOUNCE_DELAY

\* The tool selector of the specification: selectTool(current, requested).
selectTool(current, requested) ==
    IF requested = current THEN "default" ELSE requested

\* The default key bindings of the specification, on the lower-case letter.
DefaultBinding(lk) ==
    CASE lk = "r" -> "default"
      [] lk = "p" -> "pen"
      [] lk = "h" -> "hand"
      [] lk = "e" -> "eraser"
      [] lk = "a" -> "text"
      [] lk = "l" -> "line"
      [] lk = "s" -> "square"
      [] lk = "i" -> "triangle"

BoundLetters == {"r", "p", "h", "e", "a", "l", "s", "i"}

\* The step delivers a key-down of the letter lk, in either case.
LetterDown(lk) ==
    /\ event'.type = "keydown"
    /\ event'.key \in LowerLetters \cup UpperLetters
    /\ toLowerCase(event'.key) = lk

\* The Tool set the specification enumerates, and its empty sentinel.
SpecTools == {"default", "hand", "pen", "eraser", "text", "line", "square",
              "triangle", ""}

(***************************************************************************)
(* C1  Override independence.  An accepted space key-down displays hand    *)
(* and leaves the persisted tool (the owner's tool) as it was; the space   *)
(* key-up that ends the override leaves the persisted tool as it was and   *)
(* displays it again.                                                      *)
(***************************************************************************)
C1_OverrideIndependence ==
    [][/\ (KeyDownOf(SpaceKeys) /\ Accepting)
            => (displayedTool' = "hand" /\ tool' = tool)
       /\ (KeyUpOf(SpaceKeys) /\ overriding)
            => (tool' = tool /\ displayedTool' = tool)]_vars

(***************************************************************************)
(* C2  Toggle rule.  A request for tool T, by a click on T's button or by  *)
(* an accepted key-down of a letter that requests T, yields default when   *)
(* T is current, T when the current tool is default and T is not, and T    *)
(* whenever the current tool differs from T.                               *)
(***************************************************************************)
Requests(T) ==
    \/ event'.type = "click" /\ event'.key = T
    \/ /\ Accepting
       /\ \E lk \in BoundLetters : LetterDown(lk) /\ RequestedTool(lk) = T

C2_ToggleRule ==
    [][\A T \in ToolNames :
          Requests(T) =>
             /\ (tool = T => tool' = "default")
             /\ (tool = "default" /\ T # "default" => tool' = T)
             /\ (tool # T => tool' = T)
             /\ setToolCalls' = <<tool'>>]_vars

\* A click on the pen button while pen was current has given default.
C2_Witness ==
    /\ event = [type |-> "click", key |-> "pen"]
    /\ setToolCalls = <<"default">>
    /\ tool = "default"

(***************************************************************************)
(* C3  Debounce suppression.  With shortcuts enabled, a key-down less than *)
(* 150 ms after the last accepted key-down changes nothing and does not    *)
(* restart the window; a key-down 150 ms or more after it is accepted and  *)
(* becomes the last accepted one.  So accepted key-downs are never less    *)
(* than 150 ms apart.                                                      *)
(***************************************************************************)
C3_DebounceSuppression ==
    [][(KeyDownOf(Keys) /\ ~isKeyboardShortcutsDisable) =>
          IF now - lastKeyTime < 150
          THEN /\ lastKeyTime' = lastKeyTime
               /\ tool' = tool
               /\ isOpen' = isOpen
               /\ setToolCalls' = <<>>
          ELSE /\ lastKeyTime' = now
               /\ \A lk \in BoundLetters :
                     LetterDown(lk) => setToolCalls' # <<>>
               /\ KeyDownOf(SpaceKeys) => setToolCalls' # <<>>]_vars

\* e pressed 50 ms after an accepted p: suppressed, the tool is still pen
\* and the window still starts at the p.
C3_Witness ==
    /\ event = [type |-> "keydown", key |-> "e"]
    /\ ~isKeyboardShortcutsDisable
    /\ now = lastKeyTime + 50
    /\ tool = "pen"
    /\ setToolCalls = <<>>

(***************************************************************************)
(* C4  Key-up is never debounced.  A space key-up is processed in every    *)
(* state, inside the debounce window as outside it: it calls setTool('')   *)
(* and afterwards no override is active and the displayed tool is not      *)
(* hand.                                                                   *)
(***************************************************************************)
C4_KeyUpNeverDebounced ==
    [][KeyUpOf(SpaceKeys) =>
          /\ setToolCalls' = <<"">>
          /\ ~overriding'
          /\ displayedTool' # "hand"]_vars

\* A space key-up handled inside the debounce window, after the space
\* key-down that came inside the window too (held, never overriding).
C4_Witness ==
    /\ event = [type |-> "keyup", key |-> " "]
    /\ ~isKeyboardShortcutsDisable
    /\ now - lastKeyTime < DEBOUNCE_DELAY
    /\ now > lastKeyTime
    /\ ~overriding
    /\ displayedTool = ""

(***************************************************************************)
(* C5  Disabled shortcuts, key-down.  While isKeyboardShortcutsDisable is  *)
(* set, a key-down of any key changes neither the tool, the panel flag nor *)
(* lastKeyTime, and calls setTool not at all.                              *)
(***************************************************************************)
C5_DisabledKeyDown ==
    [][(KeyDownOf(Keys) /\ isKeyboardShortcutsDisable) =>
          /\ tool' = tool
          /\ isOpen' = isOpen
          /\ lastKeyTime' = lastKeyTime
          /\ setToolCalls' = <<>>]_vars

\* p pressed while disabled, with the debounce window long elapsed and the
\* tool other than pen.
C5_Witness ==
    /\ event = [type |-> "keydown", key |-> "p"]
    /\ isKeyboardShortcutsDisable
    /\ now - lastKeyTime >= DEBOUNCE_DELAY
    /\ tool = "eraser"
    /\ setToolCalls = <<>>

(***************************************************************************)
(* C6  The scenario.  After the first p the tool is pen, after the second  *)
(* default, after e eraser; while space is held the displayed tool is hand *)
(* and the persisted tool eraser; after the release the displayed tool is  *)
(* eraser.                                                                 *)
(***************************************************************************)
C6_Scenario ==
    /\ pc = 1 => tool = "pen"
    /\ pc = 2 => tool = "default"
    /\ pc = 3 => tool = "eraser"
    /\ pc = 4 => (displayedTool = "hand" /\ tool = "eraser")
    /\ pc = 5 => displayedTool = "eraser"

(***************************************************************************)
(* C7  Default key bindings.  An accepted key-down of r, p, h, e, a, l, s, *)
(* i, in either case, requests default, pen, hand, eraser, text, line,     *)
(* square, triangle through the toggle rule; t flips the panel flag; space *)
(* forces hand; no key-down passes setTool a value outside the Tool set.   *)
(***************************************************************************)
C7_DefaultBindings ==
    [][(KeyDownOf(Keys) /\ Accepting) =>
          /\ \A lk \in BoundLetters :
                LetterDown(lk) =>
                   setToolCalls' = <<selectTool(tool, DefaultBinding(lk))>>
          /\ LetterDown("t") => isOpen' = ~isOpen
          /\ KeyDownOf(SpaceKeys) => setToolCalls' = <<"hand">>
          /\ \A i \in 1..Len(setToolCalls') : setToolCalls'[i] \in SpecTools]_vars

(***************************************************************************)
(* C8  Override invariant.  The override is active if and only if the      *)
(* space key is held.                                                      *)
(***************************************************************************)
C8_OverrideIffHeld == overriding <=> spaceHeld

\* C8 as amended: the override is active only while space is held, and a
\* space key-up leaves no override and the key not held, whatever the
\* debounce state.
C8_OverrideOnlyWhileHeld ==
    /\ overriding => spaceHeld
    /\ (event.type = "keyup" /\ event.key \in SpaceKeys)
          => (~overriding /\ ~spaceHeld)

\* Space released inside the debounce window of its own accepted key-down.
C8_Witness ==
    /\ event = [type |-> "keyup", key |-> "Space"]
    /\ lastKeyTime = now
    /\ ~isKeyboardShortcutsDisable
    /\ ~overriding
    /\ ~spaceHeld

(***************************************************************************)
(* C9  Release without a recorded hold.  A space key-up that arrives when  *)
(* no override is active leaves the tool, the displayed tool and the panel *)
(* flag as they were.                                                      *)
(***************************************************************************)
C9_ReleaseWithoutHold ==
    [][(KeyUpOf(SpaceKeys) /\ ~overriding) =>
          /\ tool' = tool
          /\ displayedTool' = displayedTool
          /\ isOpen' = isOpen]_vars

(***************************************************************************)
(* C10  Disabled shortcuts, all key events.  While                         *)
(* isKeyboardShortcutsDisable is set, a key event of either kind changes   *)
(* neither the tool nor the displayed tool and calls setTool not at all.   *)
(***************************************************************************)
C10_DisabledAllKeyEvents ==
    [][((KeyDownOf(Keys) \/ KeyUpOf(Keys)) /\ isKeyboardShortcutsDisable) =>
          /\ tool' = tool
          /\ displayedTool' = displayedTool
          /\ setToolCalls' = <<>>]_vars

(***************************************************************************)
(* C11  A key-down less than 150 ms after the last accepted key-down is    *)
(* dropped entirely, space and letters alike on the one clock: the tool,   *)
(* the override, the panel flag and lastKeyTime are unchanged and setTool  *)
(* is not called.                                                          *)
(***************************************************************************)
C11_DroppedEntirely ==
    [][(KeyDownOf(Keys) /\ now - lastKeyTime < 150) =>
          /\ tool' = tool
          /\ overriding' = overriding
          /\ isOpen' = isOpen
          /\ lastKeyTime' = lastKeyTime
          /\ setToolCalls' = <<>>]_vars

\* Space pressed 50 ms after an accepted p, shortcuts enabled: no override.
C11_Witness ==
    /\ event = [type |-> "keydown", key |-> " "]
    /\ ~isKeyboardShortcutsDisable
    /\ now = lastKeyTime + 50
    /\ spaceHeld
    /\ ~overriding
    /\ tool = "pen"
    /\ setToolCalls = <<>>

(***************************************************************************)
(* C12  Pointer and keyboard selection agree.  For every current tool and  *)
(* every tool T that has a button and a key binding, a click on T's button *)
(* and an accepted key-down of T's key lead to the same next tool.         *)
(***************************************************************************)
\* The bound letters whose tool has a button.
ButtonLetters == {lk \in BoundLetters : DefaultBinding(lk) \in ButtonTools}

C12_PointerKeyboardAgree ==
    Accepting =>
       \A lk \in ButtonLetters : \A v \in Tools :
          (ENABLED (handleClick(DefaultBinding(lk)) /\ tool' = v))
             <=> (ENABLED (handleKeyDown(lk) /\ tool' = v))

(***************************************************************************)
(* C13  Pointer clicks bypass the coordinator.  A click on a tool button   *)
(* applies the toggle rule in every state, inside the debounce window and  *)
(* with shortcuts disabled as well, and leaves lastKeyTime and the panel   *)
(* flag unchanged.                                                         *)
(***************************************************************************)
C13_ClicksBypass ==
    [][event'.type = "click" =>
          /\ setToolCalls' = <<selectTool(tool, event'.key)>>
          /\ tool' = selectTool(tool, event'.key)
          /\ lastKeyTime' = lastKeyTime
          /\ isOpen' = isOpen]_vars

\* Eraser clicked while another tool was current, shortcuts disabled,
\* 50 ms after the last accepted key-down.
C13_Witness ==
    /\ event = [type |-> "click", key |-> "eraser"]
    /\ isKeyboardShortcutsDisable
    /\ now = lastKeyTime + 50
    /\ tool = "eraser"
    /\ setToolCalls = <<"eraser">>

(***************************************************************************)
(* C15  Panel flag and tool are independent.  An accepted key-down of t    *)
(* and a click on the disclosure button flip isOpen and leave the tool and *)
(* the override unchanged; every other step (tool selection, space press,  *)
(* space release) leaves isOpen unchanged.                                 *)
(***************************************************************************)
PanelToggled ==
    \/ event'.type = "toggle"
    \/ Accepting /\ LetterDown("t")

C15_PanelIndependent ==
    [][IF PanelToggled
       THEN /\ isOpen' = ~isOpen
            /\ isOpen' \in BOOLEAN
            /\ tool' = tool
            /\ overriding' = overriding
            /\ setToolCalls' = <<>>
       ELSE isOpen' = isOpen]_vars

\* T pressed with a tool selected and the override active: the panel is
\* open, the tool and the override are as they were.
C15_Witness ==
    /\ event = [type |-> "keydown", key |-> "T"]
    /\ lastKeyTime = now
    /\ isOpen
    /\ overriding
    /\ tool = "hand"

(***************************************************************************)
(* C16  An unrecognized key is a no-op.  The key-down and the key-up of a  *)
(* key that is neither space nor one of r, p, h, e, a, l, s, i, t leave    *)
(* the tool, the override and the panel flag unchanged and do not call     *)
(* setTool.                                                                *)
(***************************************************************************)
UnrecognizedKeys == {"x", "X", "Enter"}

C16_UnrecognizedNoOp ==
    [][(KeyDownOf(UnrecognizedKeys) \/ KeyUpOf(UnrecognizedKeys)) =>
          /\ tool' = tool
          /\ overriding' = overriding
          /\ isOpen' = isOpen
          /\ setToolCalls' = <<>>]_vars

\* x pressed past both early returns, with pen selected.
C16_Witness ==
    /\ event = [type |-> "keydown", key |-> "x"]
    /\ ~isKeyboardShortcutsDisable
    /\ lastKeyTime = now
    /\ tool = "pen"
    /\ setToolCalls = <<>>

(***************************************************************************)
(* C19  Every key-down that passes the debounce check with shortcuts       *)
(* enabled advances the debounce clock, an unrecognized key too, though it *)
(* produces no intent; a mapped key-down less than 150 ms after the clock  *)
(* is dropped.                                                             *)
(***************************************************************************)
C19_ClockAdvancedByAnyKey ==
    [][/\ (KeyDownOf(Keys) /\ Accepting) => lastKeyTime' = now
       /\ (KeyDownOf(UnrecognizedKeys) /\ Accepting) =>
             (setToolCalls' = <<>> /\ tool' = tool /\ isOpen' = isOpen)
       /\ (KeyDownOf(Keys \ UnrecognizedKeys) /\ ~isKeyboardShortcutsDisable
              /\ now - lastKeyTime < 150) =>
             (setToolCalls' = <<>> /\ tool' = tool /\ isOpen' = isOpen
                /\ lastKeyTime' = lastKeyTime)]_vars

\* p dropped 50 ms after the first accepted key-down, which called setTool
\* not at all (the tool is still the initial null) and left the panel shut.
C19_Witness ==
    /\ event = [type |-> "keydown", key |-> "p"]
    /\ ~isKeyboardShortcutsDisable
    /\ lastKeyTime = StartTime
    /\ now = StartTime + 50
    /\ tool = "null"
    /\ ~isOpen
    /\ setToolCalls = <<>>

(***************************************************************************)
(* C20  Space is not subject to the toggle rule.  An accepted space        *)
(* key-down passes setTool hand and leaves the tool at hand for every      *)
(* current tool, hand included, so accepted repeats during one hold keep   *)
(* it at hand.                                                             *)
(***************************************************************************)
C20_SpaceAlwaysHand ==
    [][(KeyDownOf(SpaceKeys) /\ Accepting) =>
          /\ setToolCalls' = <<"hand">>
          /\ tool' = "hand"
          /\ displayedTool' = "hand"
          /\ overriding']_vars

\* A second space key-down accepted during a hold, 150 ms or more after the
\* first: the tool is hand.
C20_Witness ==
    /\ event = [type |-> "keydown", key |-> " "]
    /\ lastKeyTime = now
    /\ now >= StartTime + DEBOUNCE_DELAY
    /\ spaceHeld
    /\ overriding
    /\ tool = "hand"
    /\ setToolCalls = <<"hand">>

(***************************************************************************)
(* C14  Listener life cycle.  Over any sequence of mounts, renders and     *)
(* unmounts, window holds at most one key-down and one key-up listener of  *)
(* the component, holds both while it is mounted and none after the        *)
(* unmount, and a key event after the unmount changes no state.            *)
(***************************************************************************)
ListenersAttached ==
    /\ Cardinality(keydownListeners) <= 1
    /\ Cardinality(keyupListeners) <= 1
    /\ mounted => (Cardinality(keydownListeners) = 1
                     /\ Cardinality(keyupListeners) = 1)
    /\ ~mounted => (keydownListeners = {} /\ keyupListeners = {})

C14_ListenerLifecycle ==
    [][/\ ListenersAttached
       /\ ListenersAttached'
       /\ (~mounted /\ event'.type \in {"keydown", "keyup"}) =>
             /\ tool' = tool
             /\ isOpen' = isOpen
             /\ lastKeyTime' = lastKeyTime
             /\ setToolCalls' = <<>>]_vars

\* p pressed after the unmount, shortcuts enabled and the window elapsed:
\* the tool is still hand.
C14_Witness ==
    /\ event = [type |-> "keydown", key |-> "p"]
    /\ ~mounted
    /\ ~isKeyboardShortcutsDisable
    /\ now - lastKeyTime >= DEBOUNCE_DELAY
    /\ tool = "hand"
    /\ keydownListeners = {}

(***************************************************************************)
(* C17  The disabled flag is read anew at every event.  Whatever the owner *)
(* did to the flag since the mount, a key-down delivered once the debounce *)
(* window has elapsed is processed if and only if the flag is false when   *)
(* it is delivered.                                                        *)
(***************************************************************************)
C17_FlagReadAtEachEvent ==
    [][(event'.type = "keydown" /\ mounted /\ now - lastKeyTime >= 150) =>
          /\ (lastKeyTime' = now) <=> ~isKeyboardShortcutsDisable
          /\ isKeyboardShortcutsDisable => setToolCalls' = <<>>
          /\ (~isKeyboardShortcutsDisable /\ event'.key \in {" ", "p"})
                => setToolCalls' # <<>>]_vars

\* p ignored with the window elapsed, by a component that accepted a
\* key-down earlier in this mount: the flag was set after that.
C17_Witness ==
    /\ event = [type |-> "keydown", key |-> "p"]
    /\ mounted
    /\ isKeyboardShortcutsDisable
    /\ lastKeyTime > 0
    /\ now - lastKeyTime >= DEBOUNCE_DELAY
    /\ setToolCalls = <<>>

(***************************************************************************)
(* C18  Handlers never act on stale state.  When an event can be           *)
(* delivered, the attached key-down listener captured the current tool and *)
(* lastKeyTime and the click handlers the current tool; so a key-down      *)
(* passes the debounce check only 150 ms or more after the last accepted   *)
(* one, and a selection toggles against the tool as it is.                 *)
(***************************************************************************)
ClosuresCurrent ==
    ~renderPending =>
       /\ \A l \in keydownListeners :
             l.tool = tool /\ l.lastKeyTime = lastKeyTime
       /\ mounted => rendered.tool = tool

C18_NoStaleState ==
    [][/\ ClosuresCurrent
       /\ ClosuresCurrent'
       /\ (event'.type = "keydown" /\ lastKeyTime' # lastKeyTime)
             => now - lastKeyTime >= 150
       /\ (event'.type = "keydown" /\ event'.key = "p"
              /\ setToolCalls' # <<>>)
             => setToolCalls' = <<selectTool(tool, "pen")>>
       /\ event'.type = "click"
             => setToolCalls' = <<selectTool(tool, event'.key)>>]_vars

\* p pressed while pen was current: the listener of a later render than
\* the first, in which no tool was pen, toggled it to default.
C18_Witness ==
    /\ event = [type |-> "keydown", key |-> "p"]
    /\ mounted
    /\ lastKeyTime = now
    /\ setToolCalls = <<"default">>
    /\ tool = "default"

====
